---- MODULE Spec2Model ----
(***************************************************************************)
(* A model of gematria/model/python/loss_utils.py: the LossComputation     *)
(* class.  One LossComputation object is constructed from three tensors    *)
(* (output_values, expected_outputs, mask) and a sequence of percentile    *)
(* ranks; loss_tensor() and the four loss properties are then called on    *)
(* it.  A tensor is modelled by its static shape, its dtype and the value  *)
(* it evaluates to; a loss tensor additionally carries an object identity. *)
(*                                                                         *)
(* Numbers are exact rationals n/d extended with the IEEE specials         *)
(* +inf (1/0), -inf (-1/0) and NaN (0/0): the division of line 109 has no  *)
(* zero guard, so the specials are reachable.                              *)
(***************************************************************************)
EXTENDS Integers, Sequences, FiniteSets, TLC

VARIABLES
    args,       \* the constructor arguments: the three tensors and the ranks
    phase,      \* "new" (before __init__), "ready" (constructed), "failed"
    self,       \* the fields of the LossComputation object
    error,      \* the exception raised by the last operation, or "none"
    ret,        \* the tensor returned by the last loss_tensor call, or NoTensor
    via,        \* the entry point of the last call
    key,        \* the (loss_type, normalization) pair of the last call
    built,      \* whether the last call built a new loss expression
    budget,     \* the number of calls the caller still makes on the object
    builds,     \* history: how often a loss expression was built, per key
    returned    \* history: per key, the (entry point, tensor identity) pairs
                \* of the successful calls

vars ==
    <<args, phase, self, error, ret, via, key, built, budget, builds, returned>>

(***************************************************************************)
(* Bounds of the model.                                                    *)
(***************************************************************************)
\* the largest number of samples N of an enumerated batch
MaxSamples == 2
\* the number of calls made on one object when the call protocol is explored
MaxCalls == 3
\* the number of calls made on one object when the inputs are explored
InputCalls == 1

(***************************************************************************)
(* Extended rational arithmetic: the element type of the float tensors.    *)
(***************************************************************************)
RECURSIVE Gcd(_, _)
Gcd(a, b) ==
    IF b = 0 THEN a ELSE Gcd(b, a % b)

AbsInt(i) ==
    IF i < 0 THEN -i ELSE i

SignInt(i) ==
    IF i < 0 THEN -1 ELSE IF i > 0 THEN 1 ELSE 0

\* the rational n/d, d # 0, in lowest terms with a positive denominator
R(n, d) ==
    LET g == Gcd(AbsInt(n), AbsInt(d))
        s == SignInt(d)
    IN  [n |-> (s * n) \div g, d |-> (s * d) \div g]

NaN == [n |-> 0, d |-> 0]
PosInf == [n |-> 1, d |-> 0]
NegInf == [n |-> -1, d |-> 0]

IsNaN(x) == x.d = 0 /\ x.n = 0
IsFinite(x) == x.d > 0

Neg(x) ==
    [n |-> -x.n, d |-> x.d]

Add(x, y) ==
    IF IsNaN(x) \/ IsNaN(y) THEN NaN
    ELSE IF IsFinite(x) /\ IsFinite(y) THEN R(x.n * y.d + y.n * x.d, x.d * y.d)
    ELSE IF IsFinite(y) THEN x
    ELSE IF IsFinite(x) THEN y
    ELSE IF x = y THEN x
    ELSE NaN

Sub(x, y) ==
    Add(x, Neg(y))

Mul(x, y) ==
    IF IsNaN(x) \/ IsNaN(y) THEN NaN
    ELSE IF IsFinite(x) /\ IsFinite(y) THEN R(x.n * y.n, x.d * y.d)
    ELSE IF x.n = 0 \/ y.n = 0 THEN NaN
    ELSE [n |-> SignInt(x.n) * SignInt(y.n), d |-> 0]

\* IEEE division; a zero divisor is +0.0
Div(x, y) ==
    IF IsNaN(x) \/ IsNaN(y) THEN NaN
    ELSE IF IsFinite(y) /\ y.n # 0
         THEN IF IsFinite(x) THEN R(x.n * y.d, x.d * y.n)
              ELSE [n |-> SignInt(x.n) * SignInt(y.n), d |-> 0]
    ELSE IF IsFinite(y)
         THEN IF x.n = 0 THEN NaN ELSE [n |-> SignInt(x.n), d |-> 0]
    ELSE IF IsFinite(x) THEN R(0, 1)
    ELSE NaN

\* x < y as floats compare: false when either side is NaN
Lt(x, y) ==
    /\ ~IsNaN(x)
    /\ ~IsNaN(y)
    /\ \/ IsFinite(x) /\ IsFinite(y) /\ x.n * y.d < y.n * x.d
       \/ x = NegInf /\ y # NegInf
       \/ y = PosInf /\ x # PosInf

\* x <= y as floats compare: false when either side is NaN
Le(x, y) ==
    ~IsNaN(x) /\ ~IsNaN(y) /\ (x = y \/ Lt(x, y))

\* tf.square, tf.abs, tf.minimum, tf.math.maximum on one element
Square(x) ==
    Mul(x, x)

Abs(x) ==
    [n |-> AbsInt(x.n), d |-> x.d]

Minimum(x, y) ==
    IF IsNaN(x) \/ IsNaN(y) THEN NaN ELSE IF Lt(y, x) THEN y ELSE x

Maximum(x, y) ==
    IF IsNaN(x) \/ IsNaN(y) THEN NaN ELSE IF Lt(x, y) THEN y ELSE x

RECURSIVE SumSeq(_)
SumSeq(s) ==
    IF s = <<>> THEN R(0, 1) ELSE Add(s[1], SumSeq(Tail(s)))

(***************************************************************************)
(* Ragged tensors: a sequence (one row per task) of sequences of values.   *)
(***************************************************************************)
\* an elementwise unary / binary operation on ragged tensors of equal splits
Map1(Op(_), a) ==
    [t \in DOMAIN a |-> [i \in DOMAIN a[t] |-> Op(a[t][i])]]

Map2(Op(_, _), a, b) ==
    [t \in DOMAIN a |-> [i \in DOMAIN a[t] |-> Op(a[t][i], b[t][i])]]

\* tf.reduce_mean(x, axis=1) of a ragged tensor: sum / row length per row;
\* an empty row gives 0/0
reduce_mean(x) ==
    [t \in DOMAIN x |-> Div(SumSeq(x[t]), R(Len(x[t]), 1))]

\* tf.transpose of an (N, T) matrix whose rows have T entries
transpose(m, T) ==
    [t \in 1..T |-> [n \in 1..Len(m) |-> m[n][t]]]

RECURSIVE MaskRow(_, _)
MaskRow(row, maskrow) ==
    IF row = <<>> THEN <<>>
    ELSE IF Head(maskrow)
         THEN <<Head(row)>> \o MaskRow(Tail(row), Tail(maskrow))
         ELSE MaskRow(Tail(row), Tail(maskrow))

\* a faulty variant: the mask is not applied, every sample is kept
boolean_mask_keeps_all(data, maskvalue) ==
    data

\* tf.ragged.boolean_mask(data, mask) of two matrices of the same shape:
\* the first dimension is kept, the second becomes ragged
boolean_mask(data, maskvalue) ==
    [t \in DOMAIN data |-> MaskRow(data[t], maskvalue[t])]

(***************************************************************************)
(* tfp.stats.percentile(x, q) with its defaults (interpolation='nearest',  *)
(* the whole of the 1-D x): the element of the ascending sort of x at      *)
(* index round((len(x) - 1) * q / 100), where round is tf.round (half to   *)
(* even); a NaN anywhere in x makes every percentile NaN.                  *)
(***************************************************************************)
RECURSIVE Insert(_, _)
Insert(x, s) ==
    IF s = <<>> THEN <<x>>
    ELSE IF Lt(s[1], x) THEN <<s[1]>> \o Insert(x, Tail(s))
    ELSE <<x>> \o s

RECURSIVE SortAscending(_)
SortAscending(s) ==
    IF s = <<>> THEN <<>> ELSE Insert(s[1], SortAscending(Tail(s)))

\* tf.round(num / den) for num >= 0, den > 0
RoundHalfEven(num, den) ==
    LET f == num \div den
        r == num % den
    IN  IF 2 * r < den THEN f
        ELSE IF 2 * r > den THEN f + 1
        ELSE IF f % 2 = 0 THEN f
        ELSE f + 1

\* The result of gathering from an empty sorted sequence is not defined by
\* the library (the index is out of range: an error when the tensor is
\* evaluated on a CPU, a zero on a GPU).  NoValue stands for the failing
\* evaluation.
NoValue == [n |-> 0, d |-> -1]

OutOfRangeGather == {NoValue, R(0, 1)}

Percentile(x, q, oob) ==
    IF x = <<>> THEN oob
    ELSE IF \E i \in DOMAIN x : IsNaN(x[i]) THEN NaN
    ELSE SortAscending(x)[RoundHalfEven((Len(x) - 1) * q, 100) + 1]

(***************************************************************************)
(* Static shapes (tf.TensorShape).                                         *)
(***************************************************************************)
\* a dimension whose size is not known statically (None)
UnknownDim == -1

\* a shape of unknown rank, and a shape of known rank with the given dims
UnknownShape == [known |-> FALSE, dims |-> <<>>]

Shape(dims) == [known |-> TRUE, dims |-> dims]

\* TensorShape.is_compatible_with
is_compatible_with(a, b) ==
    \/ ~a.known
    \/ ~b.known
    \/ /\ Len(a.dims) = Len(b.dims)
       /\ \A i \in DOMAIN a.dims :
              \/ a.dims[i] = UnknownDim
              \/ b.dims[i] = UnknownDim
              \/ a.dims[i] = b.dims[i]

\* the static shape of tf.transpose(x)
TransposedShape(a) ==
    IF a.known
    THEN Shape([i \in DOMAIN a.dims |-> a.dims[Len(a.dims) + 1 - i]])
    ELSE a

\* shape[1]: the second dimension, None when it or the rank is unknown
SecondDim(a) ==
    IF a.known /\ Len(a.dims) >= 2 THEN a.dims[2] ELSE UnknownDim

(***************************************************************************)
(* The enumerations of gematria.model.python.options used by the class,    *)
(* each with one value that is not a member (a sentinel).                  *)
(***************************************************************************)
LossTypes ==
    {"MEAN_SQUARED_ERROR", "MEAN_ABSOLUTE_ERROR", "HUBER", "RANKING_SOFTMAX_LOSS"}

ErrorNormalizations ==
    {"NONE", "PERCENTAGE_ERROR", "EXPECTED_VALUE_GREATER_THAN_ONE"}

AnyLossType == LossTypes \cup {"UNKNOWN_LOSS_TYPE"}

AnyNormalization == ErrorNormalizations \cup {"UNKNOWN_NORMALIZATION"}

\* the keys of the cache: _LossTensorType
Keys == AnyLossType \X AnyNormalization

(***************************************************************************)
(* LossComputation.__init__                                                *)
(***************************************************************************)
\* no object: before construction, and after a construction that raised
NoObject == [constructed |-> FALSE]

\* a faulty variant: the dtype of the mask is not checked
ValidationOfShapesOnly(a) ==
    IF ~a.output_values.shape.known \/ Len(a.output_values.shape.dims) # 2
    THEN "ValueError"
    ELSE IF ~is_compatible_with(a.expected_outputs.shape, a.output_values.shape)
    THEN "ValueError"
    ELSE IF ~is_compatible_with(a.mask.shape, a.output_values.shape)
    THEN "ValueError"
    ELSE "none"

\* the checks of the arguments: the exception they raise, or "none".
\* len() of a shape of unknown rank raises ValueError itself.
Validation(a) ==
    IF ~a.output_values.shape.known \/ Len(a.output_values.shape.dims) # 2
    THEN "ValueError"
    ELSE IF ~is_compatible_with(a.expected_outputs.shape, a.output_values.shape)
    THEN "ValueError"
    ELSE IF ~is_compatible_with(a.mask.shape, a.output_values.shape)
    THEN "ValueError"
    ELSE IF a.mask.dtype # "bool"
    THEN "ValueError"
    ELSE "none"

\* output_values.shape[1] or expected_outputs.shape[1]
NumTasks(a) ==
    IF SecondDim(a.output_values.shape) \notin {UnknownDim, 0}
    THEN SecondDim(a.output_values.shape)
    ELSE SecondDim(a.expected_outputs.shape)

\* The static checks tf.ragged.boolean_mask makes on its (transposed)
\* arguments while the expression is built: the rank of the mask must be
\* known, and the leading dimensions of the data must be compatible with
\* the shape of the mask.
RaggedMaskError(datashape, maskshape) ==
    IF ~maskshape.known \/ Len(maskshape.dims) = 0
    THEN "ValueError"
    ELSE IF ~is_compatible_with(datashape, maskshape)
    THEN "ValueError"
    ELSE "none"

\* _make_percentile_tensor: one row per rank, one column per task; the
\* empty constant when no ranks are configured
make_percentile_tensor(ranks, num_tasks, values, oob) ==
    IF ranks = <<>> THEN <<>>
    ELSE [r \in DOMAIN ranks |->
            [t \in 1..num_tasks |-> Percentile(values[t], ranks[r], oob)]]

\* the fields of the object once every check has passed
Fields(a, oob) ==
    LET T == Len(a.output_values.value[1])
        num_tasks == NumTasks(a)
        mask == transpose(a.mask.value, T)
        output_values == boolean_mask(transpose(a.output_values.value, T), mask)
        expected_outputs ==
            boolean_mask(transpose(a.expected_outputs.value, T), mask)
        delta == Map2(Sub, output_values, expected_outputs)
        absolute_errors == Map1(Abs, delta)
        absolute_percentage_errors == Map2(Div, absolute_errors, expected_outputs)
        OrOne(x) == Maximum(x, R(1, 1))
    IN  [ num_tasks |-> num_tasks,
          percentile_ranks |-> a.percentile_ranks,
          dtype |-> a.dtype,
          loss_tensors |-> <<>>,
          mask |-> mask,
          output_values |-> output_values,
          expected_outputs |-> expected_outputs,
          delta |-> delta,
          squared_errors |-> Map1(Square, delta),
          absolute_errors |-> absolute_errors,
          absolute_percentage_errors |-> absolute_percentage_errors,
          squared_percentage_error |-> Map1(Square, absolute_percentage_errors),
          absolute_error_percentiles |->
              make_percentile_tensor(a.percentile_ranks, num_tasks,
                                     absolute_errors, oob),
          absolute_percentage_error_percentiles |->
              make_percentile_tensor(a.percentile_ranks, num_tasks,
                                     absolute_percentage_errors, oob),
          absolute_expected_outputs_or_one |-> Map1(OrOne, expected_outputs) ]

\* __init__: the exception raised, or "none" and the object.  With ranks
\* configured and no task count known statically, range(self._num_tasks)
\* in _make_percentile_tensor raises TypeError.
init(a, oob) ==
    IF Validation(a) # "none"
    THEN [error |-> Validation(a), self |-> NoObject]
    ELSE IF RaggedMaskError(TransposedShape(a.output_values.shape),
                            TransposedShape(a.mask.shape)) # "none"
    THEN [error |-> "ValueError", self |-> NoObject]
    ELSE IF RaggedMaskError(TransposedShape(a.expected_outputs.shape),
                            TransposedShape(a.mask.shape)) # "none"
    THEN [error |-> "ValueError", self |-> NoObject]
    ELSE IF a.percentile_ranks # <<>> /\ NumTasks(a) = UnknownDim
    THEN [error |-> "TypeError", self |-> NoObject]
    ELSE [error |-> "none", self |-> Fields(a, oob)]

(***************************************************************************)
(* LossComputation.loss_tensor and its helpers.  A helper returns the      *)
(* exception it raises, or "none" and its value.                           *)
(***************************************************************************)
Raise(e) == [error |-> e, value |-> <<>>]

Return(v) == [error |-> "none", value |-> v]

squared_errors_witn_normalization(s, normalization) ==
    CASE normalization = "NONE" -> Return(s.squared_errors)
      [] normalization = "PERCENTAGE_ERROR" -> Return(s.squared_percentage_error)
      [] normalization = "EXPECTED_VALUE_GREATER_THAN_ONE" ->
            Return(Map1(Square,
                        Map2(Div, s.delta, s.absolute_expected_outputs_or_one)))
      [] OTHER -> Raise("NotImplementedError")

\* a faulty variant: EXPECTED_VALUE_GREATER_THAN_ONE is not handled
absolute_errors_without_greater_than_one(s, normalization) ==
    CASE normalization = "NONE" -> Return(s.absolute_errors)
      [] normalization = "PERCENTAGE_ERROR" -> Return(s.absolute_percentage_errors)
      [] OTHER -> Raise("NotImplementedError")

absolute_errors_with_normalization(s, normalization) ==
    CASE normalization = "NONE" -> Return(s.absolute_errors)
      [] normalization = "PERCENTAGE_ERROR" -> Return(s.absolute_percentage_errors)
      [] normalization = "EXPECTED_VALUE_GREATER_THAN_ONE" ->
            Return(Map2(Div, s.absolute_errors, s.absolute_expected_outputs_or_one))
      [] OTHER -> Raise("NotImplementedError")

\* a faulty variant: a Huber delta of 2.0
huber_delta_two == R(2, 1)

\* the delta parameter from the Huber loss definition
huber_delta == R(1, 1)

\* 0.5 * tf.square(quadratic) + huber_delta * linear, elementwise
HuberElements(absolute_errors) ==
    LET Quadratic(x) == Minimum(x, huber_delta)
        quadratic == Map1(Quadratic, absolute_errors)
        linear == Map2(Sub, absolute_errors, quadratic)
        Combine(q, l) == Add(Mul(R(1, 2), Square(q)), Mul(huber_delta, l))
    IN  Map2(Combine, quadratic, linear)

\* the value of the tensorflow_ranking softmax loss on one ranking list:
\* not computed, only named by its arguments
SoftmaxLoss(labels, scores) ==
    [labels |-> labels, scores |-> scores]

\* tf.reduce_mean(..., axis=1) of the errors a helper returned
MeanLoss(e) ==
    IF e.error # "none" THEN e ELSE Return(reduce_mean(e.value))

\* case HUBER
HuberLoss(s, normalization) ==
    LET e == absolute_errors_with_normalization(s, normalization)
    IN  IF e.error # "none" THEN e
        ELSE Return(reduce_mean(HuberElements(e.value)))

\* case RANKING_SOFTMAX_LOSS: one loss per task, concatenated; without a
\* statically known task count range(self._num_tasks) raises TypeError
RankingLoss(s) ==
    IF s.num_tasks = UnknownDim THEN Raise("TypeError")
    ELSE Return([task \in 1..s.num_tasks |->
                    SoftmaxLoss(s.expected_outputs[task], s.output_values[task])])

\* a faulty variant: a silent default instead of the final case
BuildLossWithDefault(s, normalization, loss_type) ==
    CASE loss_type = "MEAN_SQUARED_ERROR" ->
            MeanLoss(squared_errors_witn_normalization(s, normalization))
      [] loss_type = "HUBER" -> HuberLoss(s, normalization)
      [] loss_type = "RANKING_SOFTMAX_LOSS" -> RankingLoss(s)
      [] OTHER -> MeanLoss(absolute_errors_with_normalization(s, normalization))

\* the match statement over loss_type: the new loss expression
BuildLoss(s, normalization, loss_type) ==
    CASE loss_type = "MEAN_SQUARED_ERROR" ->
            MeanLoss(squared_errors_witn_normalization(s, normalization))
      [] loss_type = "MEAN_ABSOLUTE_ERROR" ->
            MeanLoss(absolute_errors_with_normalization(s, normalization))
      [] loss_type = "HUBER" -> HuberLoss(s, normalization)
      [] loss_type = "RANKING_SOFTMAX_LOSS" -> RankingLoss(s)
      [] OTHER -> Raise("ValueError")

\* no tensor: the None of self._loss_tensors.get(...)
NoTensor == [id |-> <<>>, value |-> <<>>]

\* self._loss_tensors.get(k)
Get(s, k) ==
    IF k \in DOMAIN s.loss_tensors THEN s.loss_tensors[k] ELSE NoTensor

\* a faulty variant: the new tensor is not stored
StoreNothing(s, k, tensor) ==
    s

\* a faulty variant: the dictionary is replaced by one holding the new entry
StoreAlone(s, k, tensor) ==
    [s EXCEPT !.loss_tensors = [j \in {k} |-> tensor]]

\* self._loss_tensors[k] = tensor
Store(s, k, tensor) ==
    [s EXCEPT !.loss_tensors =
        [j \in DOMAIN s.loss_tensors \cup {k} |->
            IF j = k THEN tensor ELSE s.loss_tensors[j]]]

\* a faulty variant: the key is entered into the dictionary before the
\* expression is built, and stays there when building raises
loss_tensor_entering_key_first(s, normalization, loss_type, fresh) ==
    LET k == <<loss_type, normalization>>
        tensor == Get(s, k)
        b == BuildLoss(s, normalization, loss_type)
        new == [id |-> fresh, value |-> b.value]
    IN  IF tensor # NoTensor
        THEN [self |-> s, ret |-> tensor, error |-> "none", built |-> FALSE]
        ELSE IF b.error # "none"
        THEN [self |-> Store(s, k, NoTensor), ret |-> NoTensor,
              error |-> b.error, built |-> FALSE]
        ELSE [self |-> Store(s, k, new), ret |-> new, error |-> "none",
              built |-> TRUE]

\* loss_tensor on object s; fresh is the identity a tensor built by this
\* call gets.  Returns the object after the call, the tensor returned, the
\* exception raised and whether a loss expression was built.
loss_tensor(s, normalization, loss_type, fresh) ==
    LET k == <<loss_type, normalization>>
        tensor == Get(s, k)
        b == BuildLoss(s, normalization, loss_type)
        new == [id |-> fresh, value |-> b.value]
    IN  IF tensor # NoTensor
        THEN [self |-> s, ret |-> tensor, error |-> "none", built |-> FALSE]
        ELSE IF b.error # "none"
        THEN [self |-> s, ret |-> NoTensor, error |-> b.error, built |-> FALSE]
        ELSE [self |-> Store(s, k, new), ret |-> new, error |-> "none",
              built |-> TRUE]

\* the four loss properties: the arguments each passes to loss_tensor
mean_absolute_error ==
    [normalization |-> "NONE", loss_type |-> "MEAN_ABSOLUTE_ERROR"]

mean_squared_error ==
    [normalization |-> "NONE", loss_type |-> "MEAN_SQUARED_ERROR"]

mean_absolute_percentage_error ==
    [normalization |-> "PERCENTAGE_ERROR", loss_type |-> "MEAN_ABSOLUTE_ERROR"]

\* a faulty variant: the normalization of mean_squared_error
mean_squared_percentage_error_unnormalized ==
    [normalization |-> "NONE", loss_type |-> "MEAN_SQUARED_ERROR"]

mean_squared_percentage_error ==
    [normalization |-> "PERCENTAGE_ERROR", loss_type |-> "MEAN_SQUARED_ERROR"]

(***************************************************************************)
(* The inputs the model explores.  One cell is one sample of one task:     *)
(* the prediction p, the expected value e and the mask entry m.            *)
(***************************************************************************)
Cell(p, e, m) == [p |-> p, e |-> e, m |-> m]

\* error 0; error 1/2 (1/3 of e); error 2 (equal to e); 0 predicted for an
\* expected 0; a sample the mask leaves out
CellExact == Cell(R(1, 1), R(1, 1), TRUE)
CellNear == Cell(R(2, 1), R(3, 2), TRUE)
CellFar == Cell(R(0, 1), R(2, 1), TRUE)
CellZero == Cell(R(0, 1), R(0, 1), TRUE)
CellMasked == Cell(R(3, 1), R(1, 1), FALSE)

CellList == <<CellExact, CellNear, CellFar, CellZero, CellMasked>>

\* the samples (one cell per task) of the enumerated batches
Rows(T) ==
    IF T = 1 THEN {<<CellList[i]>> : i \in DOMAIN CellList}
    ELSE { <<CellExact, CellFar>>, <<CellNear, CellMasked>>,
           <<CellFar, CellNear>>, <<CellMasked, CellZero>>,
           <<CellZero, CellExact>>, <<CellMasked, CellMasked>> }

\* every batch of 1..MaxSamples samples
Batches(T) ==
    UNION {[1..n -> Rows(T)] : n \in 1..MaxSamples}

\* predictions 1,2,3,4 against expected 1,2,3,5 for one task, with every
\* sample valid and with the samples 2 and 4 masked out
ExampleBatches ==
    { [n \in 1..4 |-> <<Cell(R(n, 1), R(IF n = 4 THEN 5 ELSE n, 1), TRUE)>>],
      [n \in 1..4 |-> <<Cell(R(n, 1), R(IF n = 4 THEN 5 ELSE n, 1), n % 2 = 1)>>] }

\* a batch of N samples for T tasks with fixed contents
FixedBatch(N, T) ==
    [n \in 1..N |-> [t \in 1..T |-> CellList[((n + 2 * t) % 5) + 1]]]

RankChoices == {<<>>, <<0, 50, 100>>}

Tensor(shape, dtype, value) ==
    [shape |-> shape, dtype |-> dtype, value |-> value]

\* the constructor arguments for the given static shapes and batch
MakeArgs(so, se, sm, maskdtype, ranks, batch) ==
    [ output_values |->
          Tensor(so, "float32",
                 [n \in DOMAIN batch |-> [t \in DOMAIN batch[n] |-> batch[n][t].p]]),
      expected_outputs |->
          Tensor(se, "float32",
                 [n \in DOMAIN batch |-> [t \in DOMAIN batch[n] |-> batch[n][t].e]]),
      mask |->
          Tensor(sm, maskdtype,
                 [n \in DOMAIN batch |-> [t \in DOMAIN batch[n] |-> batch[n][t].m]]),
      dtype |-> "float32",
      percentile_ranks |-> ranks ]

\* placeholders of shape (None, T) fed with every enumerated batch
InputArgs ==
    { MakeArgs(Shape(<<UnknownDim, T>>), Shape(<<UnknownDim, T>>),
               Shape(<<UnknownDim, T>>), "bool", ranks, batch) :
        <<T, ranks, batch>> \in
            { x \in {1, 2} \X RankChoices \X (Batches(1) \cup Batches(2) \cup ExampleBatches) :
                Len(x[3][1]) = x[1] } }

\* the call protocol is explored on a few objects, with and without a
\* statically known task count
ProtocolArgs ==
    { MakeArgs(Shape(<<UnknownDim, t>>), Shape(<<UnknownDim, t>>),
               Shape(<<UnknownDim, t>>), "bool", ranks, FixedBatch(n, 2)) :
        <<t, ranks, n>> \in {UnknownDim, 2} \X RankChoices \X {2} }

ShapeChoices ==
    { UnknownShape, Shape(<<2>>), Shape(<<UnknownDim, UnknownDim>>),
      Shape(<<UnknownDim, 2>>), Shape(<<2, 2>>), Shape(<<3, 2>>),
      Shape(<<2, 1>>), Shape(<<2, 2, 2>>) }

\* the size of dimension i that the three static shapes leave to the fed
\* data: the first one known, 2 when none is
RuntimeDim(i, shapes) ==
    LET known == { j \in DOMAIN shapes :
                     /\ shapes[j].known
                     /\ Len(shapes[j].dims) = 2
                     /\ shapes[j].dims[i] # UnknownDim }
    IN  IF known = {} THEN 2
        ELSE shapes[CHOOSE j \in known : \A l \in known : j <= l].dims[i]

\* every combination of static shapes and mask dtype
ShapeArgs ==
    { MakeArgs(x[1], x[2], x[3], x[4], x[5],
               FixedBatch(RuntimeDim(1, <<x[1], x[2], x[3]>>),
                          RuntimeDim(2, <<x[1], x[2], x[3]>>))) :
        x \in ShapeChoices \X ShapeChoices \X ShapeChoices
                \X {"bool", "int32"} \X RankChoices }

(***************************************************************************)
(* The state machine.                                                      *)
(***************************************************************************)
InitWith(argset, calls) ==
    /\ args \in argset
    /\ phase = "new"
    /\ self = NoObject
    /\ error = "none"
    /\ ret = NoTensor
    /\ via = "none"
    /\ key = <<"none", "none">>
    /\ built = FALSE
    /\ budget = calls
    /\ builds = [k \in Keys |-> 0]
    /\ returned = [k \in Keys |-> {}]

Init == InitWith(ProtocolArgs, MaxCalls)

InitInputs == InitWith(InputArgs, InputCalls)

InitShapes == InitWith(ShapeArgs, InputCalls)

\* LossComputation(...)
Construct ==
    /\ phase = "new"
    /\ \E oob \in OutOfRangeGather :
          \E r \in {init(args, oob)} :
              /\ phase' = IF r.error = "none" THEN "ready" ELSE "failed"
              /\ self' = r.self
              /\ error' = r.error
    /\ UNCHANGED <<args, ret, via, key, built, budget, builds, returned>>

\* one call of loss_tensor(normalization, loss_type), made through entry
Call(entry, normalization, loss_type) ==
    /\ phase = "ready"
    /\ budget > 0
    /\ \E k \in {<<loss_type, normalization>>} :
       \E r \in {loss_tensor(self, normalization, loss_type,
                             <<loss_type, normalization, builds[k] + 1>>)} :
           /\ self' = r.self
           /\ ret' = r.ret
           /\ error' = r.error
           /\ key' = k
           /\ built' = r.built
           /\ builds' = IF r.built THEN [builds EXCEPT ![k] = @ + 1] ELSE builds
           /\ returned' = IF r.error = "none"
                          THEN [returned EXCEPT ![k] = @ \cup {<<entry, r.ret.id>>}]
                          ELSE returned
    /\ via' = entry
    /\ budget' = budget - 1
    /\ UNCHANGED <<args, phase>>

LossTensor ==
    \E normalization \in AnyNormalization, loss_type \in AnyLossType :
        Call("loss_tensor", normalization, loss_type)

MeanAbsoluteError ==
    Call("mean_absolute_error", mean_absolute_error.normalization,
         mean_absolute_error.loss_type)

MeanSquaredError ==
    Call("mean_squared_error", mean_squared_error.normalization,
         mean_squared_error.loss_type)

MeanAbsolutePercentageError ==
    Call("mean_absolute_percentage_error",
         mean_absolute_percentage_error.normalization,
         mean_absolute_percentage_error.loss_type)

MeanSquaredPercentageError ==
    Call("mean_squared_percentage_error",
         mean_squared_percentage_error.normalization,
         mean_squared_percentage_error.loss_type)

Next ==
    \/ Construct
    \/ LossTensor
    \/ MeanAbsoluteError
    \/ MeanSquaredError
    \/ MeanAbsolutePercentageError
    \/ MeanSquaredPercentageError

Spec == Init /\ [][Next]_vars

SpecInputs == InitInputs /\ [][Next]_vars

SpecShapes == InitShapes /\ [][Next]_vars

(***************************************************************************)
(* Properties of the cache of loss tensors (checked under Spec).           *)
(***************************************************************************)
\* a call has been made on the constructed object
Called == phase = "ready" /\ via # "none"

\* C1: two successful calls of loss_tensor with the same (loss_type,
\* normalization) return the very same tensor object: the expression of a
\* key is built at most once, and every successful call returns the entry
\* the cache holds for its key.
C1_SameTensorPerKey ==
    /\ \A k \in Keys :
          /\ builds[k] <= 1
          /\ \A x, y \in returned[k] : x[2] = y[2]
    /\ (Called /\ error = "none") =>
          /\ key \in DOMAIN self.loss_tensors
          /\ ret = self.loss_tensors[key]
          /\ builds[key] = 1

\* a successful call that built nothing: it returned the entry of an
\* earlier call with the same key
C1_Witness ==
    Called /\ error = "none" /\ ~built /\ builds[key] = 1

\* C4: a loss_type outside the four known ones raises ValueError, whatever
\* the normalization and whatever the cache holds; no tensor is returned
\* and no entry is ever stored under such a key.
C4_UnknownLossTypeRaises ==
    /\ phase = "ready" => \A k \in DOMAIN self.loss_tensors : k[1] \in LossTypes
    /\ (Called /\ key[1] \notin LossTypes) =>
          /\ error = "ValueError"
          /\ ret = NoTensor
          /\ ~built

\* an unknown loss type requested, with a normalization of the enumeration,
\* from an object whose cache already holds an entry
C4_Witness ==
    /\ Called
    /\ key = <<"UNKNOWN_LOSS_TYPE", "EXPECTED_VALUE_GREATER_THAN_ONE">>
    /\ error = "ValueError"
    /\ DOMAIN self.loss_tensors # {}

\* C5: the cache is empty right after construction; a step either leaves
\* it as it is, or is a successful first call for a key that adds exactly
\* the entry of that key, a tensor distinct from every entry held, and
\* leaves every entry held unchanged.
C5_CacheGrowsByOneEntry ==
    [][ /\ (phase = "new" /\ phase' = "ready") => DOMAIN self'.loss_tensors = {}
        /\ phase = "ready" =>
              \/ self'.loss_tensors = self.loss_tensors
              \/ /\ budget' < budget
                 /\ built'
                 /\ error' = "none"
                 /\ key' \notin DOMAIN self.loss_tensors
                 /\ DOMAIN self'.loss_tensors = DOMAIN self.loss_tensors \cup {key'}
                 /\ \A j \in DOMAIN self.loss_tensors :
                        /\ self'.loss_tensors[j] = self.loss_tensors[j]
                        /\ self'.loss_tensors[key'].id # self.loss_tensors[j].id
      ]_vars

\* a cache that holds the entries of three keys
C5_Witness ==
    phase = "ready" /\ Cardinality(DOMAIN self.loss_tensors) = 3

\* C8: each loss property calls loss_tensor with its fixed pair and
\* returns the entry of that pair; whatever the entry point and the order,
\* every successful call for the pair returned the same object.
C8_PropertiesShareTheEntry ==
    \A p \in { <<"mean_absolute_error", "MEAN_ABSOLUTE_ERROR", "NONE">>,
               <<"mean_squared_error", "MEAN_SQUARED_ERROR", "NONE">>,
               <<"mean_absolute_percentage_error", "MEAN_ABSOLUTE_ERROR",
                 "PERCENTAGE_ERROR">>,
               <<"mean_squared_percentage_error", "MEAN_SQUARED_ERROR",
                 "PERCENTAGE_ERROR">> } :
        /\ via = p[1] =>
              /\ key = <<p[2], p[3]>>
              /\ error = "none"
              /\ ret = self.loss_tensors[<<p[2], p[3]>>]
        /\ \A x, y \in returned[<<p[2], p[3]>>] : x[2] = y[2]

\* the property read after loss_tensor was called with its pair, and
\* loss_tensor called again after the property was read
C8_Witness ==
    /\ via = "loss_tensor"
    /\ key = <<"MEAN_SQUARED_ERROR", "PERCENTAGE_ERROR">>
    /\ ~built
    /\ budget = 0
    /\ \E x \in returned[key] : x[1] = "mean_squared_percentage_error"

\* C10: a call that raises leaves the object as it was (the cache and the
\* tensors derived at construction), returns nothing and builds nothing;
\* a later call reads nothing but the object, so it behaves as it would
\* have without the call that raised.
C10_RaiseChangesNothing ==
    [][ (phase = "ready" /\ budget' < budget /\ error' # "none") =>
            /\ self' = self
            /\ ret' = NoTensor
            /\ builds' = builds
            /\ returned' = returned
      ]_vars

\* a normalization unknown to the helpers requested from an object whose
\* cache already holds an entry
C10_Witness ==
    /\ Called
    /\ error = "NotImplementedError"
    /\ key[1] \in LossTypes
    /\ DOMAIN self.loss_tensors # {}

(***************************************************************************)
(* Properties of the values (checked under SpecInputs), stated on the      *)
(* constructor arguments: sample n of task t has prediction P(n, t),       *)
(* expected value E(n, t) and mask entry M(n, t).                          *)
(***************************************************************************)
NumSamples == Len(args.output_values.value)

NumColumns == Len(args.output_values.value[1])

P(n, t) == args.output_values.value[n][t]

E(n, t) == args.expected_outputs.value[n][t]

M(n, t) == args.mask.value[n][t]

\* the samples of task t the mask keeps, and the i-th of them
ValidSamples(t) ==
    {n \in 1..NumSamples : M(n, t)}

NthValid(t, i) ==
    CHOOSE n \in ValidSamples(t) :
        Cardinality({m \in ValidSamples(t) : m <= n}) = i

\* the sum of the values of a function
RECURSIVE SumFn(_)
SumFn(f) ==
    IF DOMAIN f = {} THEN R(0, 1)
    ELSE LET n == CHOOSE n \in DOMAIN f : TRUE
         IN  Add(f[n], SumFn([m \in DOMAIN f \ {n} |-> f[m]]))

\* the mean of F(n, t) over the valid samples of task t
MeanOfValid(F(_, _), t) ==
    Div(SumFn([n \in ValidSamples(t) |-> F(n, t)]),
        R(Cardinality(ValidSamples(t)), 1))

\* |P - E| and (P - E)^2 of one sample
AbsoluteError(n, t) ==
    IF Lt(P(n, t), E(n, t)) THEN Sub(E(n, t), P(n, t)) ELSE Sub(P(n, t), E(n, t))

SquaredError(n, t) ==
    Mul(Sub(P(n, t), E(n, t)), Sub(P(n, t), E(n, t)))

\* the last call returned the tensor of the given loss type and
\* normalization
Returned(loss_type, normalization) ==
    Called /\ error = "none" /\ key = <<loss_type, normalization>>

\* C6: per task, the masked sequences hold exactly the samples whose mask
\* entry is true, in sample order; MEAN_ABSOLUTE_ERROR and
\* MEAN_SQUARED_ERROR with normalization NONE are the means of |P - E| and
\* (P - E)^2 over those samples only (0/0 when there is none); for
\* P = 1,2,3,4 and E = 1,2,3,5 both are 1/4 with every sample valid, and
\* the mean absolute error is 0 with the samples 2 and 4 masked out.
C6_MaskedMeans ==
    /\ phase = "ready" =>
          \A t \in 1..NumColumns :
              /\ Len(self.output_values[t]) = Cardinality(ValidSamples(t))
              /\ Len(self.expected_outputs[t]) = Cardinality(ValidSamples(t))
              /\ \A i \in 1..Cardinality(ValidSamples(t)) :
                     /\ self.output_values[t][i] = P(NthValid(t, i), t)
                     /\ self.expected_outputs[t][i] = E(NthValid(t, i), t)
    /\ Returned("MEAN_ABSOLUTE_ERROR", "NONE") =>
          /\ Len(ret.value) = NumColumns
          /\ \A t \in 1..NumColumns : ret.value[t] = MeanOfValid(AbsoluteError, t)
    /\ Returned("MEAN_SQUARED_ERROR", "NONE") =>
          /\ Len(ret.value) = NumColumns
          /\ \A t \in 1..NumColumns : ret.value[t] = MeanOfValid(SquaredError, t)
    /\ ( /\ Called
         /\ error = "none"
         /\ key \in {"MEAN_ABSOLUTE_ERROR", "MEAN_SQUARED_ERROR"} \X {"NONE"}
         /\ NumSamples = 4
         /\ NumColumns = 1
         /\ \A n \in 1..4 : P(n, 1) = R(n, 1) /\ E(n, 1) = R(IF n = 4 THEN 5 ELSE n, 1) ) =>
          /\ (\A n \in 1..4 : M(n, 1)) => ret.value = <<R(1, 4)>>
          /\ (\A n \in 1..4 : M(n, 1) = (n % 2 = 1)) => ret.value = <<R(0, 1)>>

\* the mean absolute error of a task with a masked-out sample in front of
\* a valid one whose error is not zero
C6_Witness ==
    /\ Returned("MEAN_ABSOLUTE_ERROR", "NONE")
    /\ \E t \in 1..NumColumns :
          /\ ~M(1, t)
          /\ ValidSamples(t) # {}
          /\ ret.value[t] # R(0, 1)

\* the Huber function with delta 1.0
Huber(a) ==
    IF Le(a, R(1, 1)) THEN Mul(R(1, 2), Mul(a, a)) ELSE Sub(a, R(1, 2))

HuberOfError(n, t) ==
    Huber(AbsoluteError(n, t))

\* C7: HUBER with normalization NONE is, per task, the mean over the valid
\* samples of h(|P - E|), h(a) = a^2 / 2 for a <= 1 and a - 1/2 for a > 1;
\* it is half the mean squared error of a task all of whose valid samples
\* have |P - E| <= 1.
C7_HuberLoss ==
    Returned("HUBER", "NONE") =>
        /\ Len(ret.value) = NumColumns
        /\ \A t \in 1..NumColumns :
              /\ ret.value[t] = MeanOfValid(HuberOfError, t)
              /\ (\A n \in ValidSamples(t) : Le(AbsoluteError(n, t), R(1, 1))) =>
                     ret.value[t] = Mul(R(1, 2), reduce_mean(self.squared_errors)[t])

\* a task with an error below 1 that is not zero, and a task with an
\* error above 1
C7_Witness ==
    /\ Returned("HUBER", "NONE")
    /\ \E t \in 1..NumColumns : \E n \in ValidSamples(t) :
          Lt(R(0, 1), AbsoluteError(n, t)) /\ Lt(AbsoluteError(n, t), R(1, 1))
    /\ \E t \in 1..NumColumns : \E n \in ValidSamples(t) :
          Lt(R(1, 1), AbsoluteError(n, t))

\* the percentiles of tensor x are monotone in the rank, for every task
\* that has a valid sample
MonotonePercentiles(x) ==
    \A t \in 1..NumColumns :
        ValidSamples(t) # {} =>
            \A i, j \in DOMAIN self.percentile_ranks :
                self.percentile_ranks[i] < self.percentile_ranks[j] =>
                    Le(x[i][t], x[j][t])

\* C9: for every task and every two configured ranks r1 < r2, the
\* percentile reported for r1 is at most the one reported for r2, in the
\* absolute-error and in the absolute-percentage-error percentile tensor.
C9_PercentilesMonotone ==
    phase = "ready" =>
        /\ MonotonePercentiles(self.absolute_error_percentiles)
        /\ MonotonePercentiles(self.absolute_percentage_error_percentiles)

\* C3, as stated: EXPECTED_VALUE_GREATER_THAN_ONE with HUBER or
\* RANKING_SOFTMAX_LOSS fails with a not-implemented error and returns no
\* tensor.
C3_GreaterThanOneRejected ==
    ( /\ Called
      /\ key \in {"HUBER", "RANKING_SOFTMAX_LOSS"}
                    \X {"EXPECTED_VALUE_GREATER_THAN_ONE"} ) =>
        error = "NotImplementedError" /\ ret = NoTensor

\* the Huber function of |P - E| / max(E, 1)
HuberOfErrorOverExpectedOrOne(n, t) ==
    Huber(Div(AbsoluteError(n, t),
              IF Lt(E(n, t), R(1, 1)) THEN R(1, 1) ELSE E(n, t)))

\* C3, amended: EXPECTED_VALUE_GREATER_THAN_ONE is accepted for all four
\* loss types.  HUBER returns and caches the per-task mean of the Huber
\* function of |P - E| / max(E, 1); RANKING_SOFTMAX_LOSS ignores the
\* normalization and, with a statically known task count, returns and
\* caches the ranking loss of each task's masked lists.  A not-implemented
\* error is raised exactly for a normalization outside the enumeration
\* with MEAN_SQUARED_ERROR, MEAN_ABSOLUTE_ERROR or HUBER.
C3_GreaterThanOneAccepted ==
    /\ (Called /\ key[2] = "EXPECTED_VALUE_GREATER_THAN_ONE" /\ key[1] \in LossTypes) =>
          /\ error # "NotImplementedError"
          /\ self.num_tasks # UnknownDim =>
                /\ error = "none"
                /\ ret # NoTensor
                /\ ret = self.loss_tensors[key]
    /\ Returned("HUBER", "EXPECTED_VALUE_GREATER_THAN_ONE") =>
          \A t \in 1..NumColumns :
              ret.value[t] = MeanOfValid(HuberOfErrorOverExpectedOrOne, t)
    /\ \A n \in AnyNormalization :
          Returned("RANKING_SOFTMAX_LOSS", n) =>
              \A t \in 1..NumColumns :
                  ret.value[t] =
                      SoftmaxLoss(self.expected_outputs[t], self.output_values[t])
    /\ Called =>
          ( error = "NotImplementedError" <=>
              /\ key[2] \notin ErrorNormalizations
              /\ key[1] \in {"MEAN_SQUARED_ERROR", "MEAN_ABSOLUTE_ERROR", "HUBER"} )

\* the normalized Huber loss of a task with an expected value below 1 and
\* a task whose normalized loss is not zero
C3_Witness ==
    /\ Returned("HUBER", "EXPECTED_VALUE_GREATER_THAN_ONE")
    /\ \E t \in 1..NumColumns : \E n \in ValidSamples(t) : Lt(E(n, t), R(1, 1))
    /\ \E t \in 1..NumColumns : Lt(R(0, 1), ret.value[t])

(***************************************************************************)
(* Properties of the construction (checked under SpecShapes).              *)
(***************************************************************************)
PairwiseCompatible ==
    /\ is_compatible_with(args.expected_outputs.shape, args.output_values.shape)
    /\ is_compatible_with(args.mask.shape, args.output_values.shape)
    /\ is_compatible_with(args.mask.shape, args.expected_outputs.shape)

\* C2, as stated: construction succeeds if and only if the three tensors
\* are pairwise shape-compatible and the mask is boolean; in every other
\* case it raises ValueError.
C2_SucceedsIffCompatible ==
    phase # "new" =>
        /\ phase = "ready" <=> (PairwiseCompatible /\ args.mask.dtype = "bool")
        /\ phase = "failed" => error = "ValueError"

\* shape x has rank 2 / has unknown rank or is of rank 2 and agrees with
\* the rank-2 shape o wherever both dimensions are known
RankTwo(x) ==
    x.known /\ Len(x.dims) = 2

FitsRankTwo(x, o) ==
    \/ ~x.known
    \/ /\ Len(x.dims) = 2
       /\ \A i \in 1..2 :
              x.dims[i] = o.dims[i] \/ UnknownDim \in {x.dims[i], o.dims[i]}

Accepted ==
    /\ RankTwo(args.output_values.shape)
    /\ FitsRankTwo(args.expected_outputs.shape, args.output_values.shape)
    /\ FitsRankTwo(args.mask.shape, args.output_values.shape)
    /\ args.mask.dtype = "bool"

\* C2, amended: construction succeeds only if output_values is exactly
\* 2-dimensional, expected_outputs and mask are each shape-compatible with
\* output_values, and the mask is boolean; arguments that violate one of
\* these conditions raise ValueError.
C2_SucceedsOnlyIfAccepted ==
    phase # "new" =>
        /\ phase = "ready" => Accepted
        /\ ~Accepted => phase = "failed" /\ error = "ValueError"

\* a mask of a compatible shape that is not boolean is rejected
C2_Witness ==
    /\ phase = "failed"
    /\ error = "ValueError"
    /\ RankTwo(args.output_values.shape)
    /\ RankTwo(args.expected_outputs.shape)
    /\ RankTwo(args.mask.shape)
    /\ PairwiseCompatible
    /\ args.mask.dtype # "bool"

====
